---- MODULE Spec2Model ----
(***************************************************************************)
(* Agglomerative hierarchical clustering (pbnjay/clustering).              *)
(*                                                                         *)
(* The model covers the clustering engine (Cluster, MergeNext, dist,       *)
(* mergeAndUpdateAll), the built-in linkage types, the built-in checkers   *)
(* and the DistanceMap cluster set.                                        *)
(*                                                                         *)
(* float64 values are modelled as exact rationals <<num, den>> with        *)
(* den > 0 in lowest terms; NaN is the pair <<0, 0>>.  Rounding error of   *)
(* float64 arithmetic is therefore not modelled; NaN propagation and the   *)
(* always-false NaN comparisons are.                                       *)
(***************************************************************************)
EXTENDS Integers, Sequences, FiniteSets, TLC

(***************************************************************************)
(* Bounds of the model.                                                    *)
(***************************************************************************)
\* number of items of the generated distance maps
NumItems == 3
\* longest Put sequence of the linkage specification
MaxPuts == 3

(***************************************************************************)
(* float64 as exact rationals.                                             *)
(***************************************************************************)
\* F applied to the value of v: v is evaluated once, before F is applied
Let(v, F(_)) == CHOOSE out \in {F(w) : w \in {v}} : TRUE

RECURSIVE GCD(_, _)
GCD(a, b) == IF b = 0 THEN a ELSE Let(a % b, LAMBDA m : GCD(b, m))

AbsInt(n) == IF n < 0 THEN -n ELSE n

NaN == <<0, 0>>

IsNaN(x) == x[2] = 0

\* the rational n/d in lowest terms (d > 0)
Rat(n, d) ==
    Let(<<n, d>>, LAMBDA p :
        Let(GCD(AbsInt(p[1]), p[2]), LAMBDA g : <<p[1] \div g, p[2] \div g>>))

F(n) == <<n, 1>>

FAdd(x0, y0) ==
    Let(<<x0, y0>>, LAMBDA p :
        LET x == p[1]
            y == p[2]
        IN  IF IsNaN(x) \/ IsNaN(y) THEN NaN
            ELSE Rat(x[1] * y[2] + y[1] * x[2], x[2] * y[2]))

FSub(x0, y0) ==
    Let(<<x0, y0>>, LAMBDA p :
        LET x == p[1]
            y == p[2]
        IN  IF IsNaN(x) \/ IsNaN(y) THEN NaN
            ELSE Rat(x[1] * y[2] - y[1] * x[2], x[2] * y[2]))

FMul(x0, y0) ==
    Let(<<x0, y0>>, LAMBDA p :
        LET x == p[1]
            y == p[2]
        IN  IF IsNaN(x) \/ IsNaN(y) THEN NaN
            ELSE Rat(x[1] * y[1], x[2] * y[2]))

\* x / y for x >= 0, y >= 0: 0/0 is NaN (the only division by zero the
\* program performs is 0/0 in avgLinkage.LWParams)
FDiv(x0, y0) ==
    Let(<<x0, y0>>, LAMBDA p :
        LET x == p[1]
            y == p[2]
        IN  IF IsNaN(x) \/ IsNaN(y) \/ y[1] = 0 THEN NaN
            ELSE Rat(x[1] * y[2], x[2] * y[1]))

\* x < y, false when either side is NaN
FLt(x0, y0) ==
    Let(<<x0, y0>>, LAMBDA p :
        LET x == p[1]
            y == p[2]
        IN  /\ ~IsNaN(x)
            /\ ~IsNaN(y)
            /\ x[1] * y[2] < y[1] * x[2])

\* x <= y, false when either side is NaN
FLe(x0, y0) ==
    Let(<<x0, y0>>, LAMBDA p :
        LET x == p[1]
            y == p[2]
        IN  /\ ~IsNaN(x)
            /\ ~IsNaN(y)
            /\ x[1] * y[2] <= y[1] * x[2])

\* x == y, false when either side is NaN
FEq(x0, y0) ==
    Let(<<x0, y0>>, LAMBDA p :
        /\ ~IsNaN(p[1])
        /\ ~IsNaN(p[2])
        /\ p[1] = p[2])

\* math.MaxFloat64: larger than every score the model can produce
MaxFloat64 == <<1000000, 1>>

\* the distance a DistanceMap reports for a pair it has no entry for
DefaultDist == <<1, 1>>

(***************************************************************************)
(* Linkage types (LinkageType interface and its built-in implementations). *)
(* One record holds the fields of maxLinkage, minLinkage and avgLinkage;   *)
(* kind selects the implementation.  kind "custom" is a caller-supplied    *)
(* linkage that scores like maxLinkage and whose LWParams returns lwLen    *)
(* values.                                                                 *)
(***************************************************************************)
\* a freshly constructed linkage object (Go zero values, nil maps)
NewLinkage(kind, isWeighted, lwLen) ==
    [kind |-> kind, maxDist |-> F(0), minDist |-> F(0), avgDist |-> F(0),
     totalPairs |-> F(0), isWeighted |-> isWeighted,
     leftCounts |-> {}, rightCounts |-> {}, lwLen |-> lwLen]

CompleteLinkage == NewLinkage("max", FALSE, 4)

SingleLinkage == NewLinkage("min", FALSE, 4)

AverageLinkage == NewLinkage("avg", FALSE, 4)

WeightedAverageLinkage == NewLinkage("avg", TRUE, 4)

CustomLinkage(lwLen) == NewLinkage("custom", FALSE, lwLen)

maxLinkageReset(c) == [c EXCEPT !.maxDist = F(-1)]

maxLinkageGet(c) == c.maxDist

maxLinkagePut(c, a, b, dist) ==
    IF FLt(c.maxDist, dist) \/ FLt(c.maxDist, F(0))
    THEN [c EXCEPT !.maxDist = dist]
    ELSE c

maxLinkageLWParams(c) == <<Rat(1, 2), Rat(1, 2), F(0), Rat(1, 2)>>

minLinkageReset(c) == [c EXCEPT !.minDist = F(-1)]

minLinkageGet(c) == c.minDist

minLinkagePut(c, a, b, dist) ==
    IF FLt(dist, c.minDist) \/ FLt(c.minDist, F(0))
    THEN [c EXCEPT !.minDist = dist]
    ELSE c

minLinkageLWParams(c) == <<Rat(1, 2), Rat(1, 2), F(0), Rat(-1, 2)>>

\* variant: Reset leaves the number of pairs put so far in place
avgLinkageResetKeepPairs(c) ==
    IF c.isWeighted
    THEN [c EXCEPT !.avgDist = F(0)]
    ELSE [c EXCEPT !.avgDist = F(0),
                   !.leftCounts = {}, !.rightCounts = {}]

avgLinkageReset(c) ==
    IF c.isWeighted
    THEN [c EXCEPT !.avgDist = F(0), !.totalPairs = F(0)]
    ELSE [c EXCEPT !.avgDist = F(0), !.totalPairs = F(0),
                   !.leftCounts = {}, !.rightCounts = {}]

avgLinkageGet(c) ==
    IF FLe(c.totalPairs, F(0)) THEN F(0) ELSE FDiv(c.avgDist, c.totalPairs)

avgLinkagePut(c, a, b, dist) ==
    IF c.isWeighted
    THEN [c EXCEPT !.avgDist = FAdd(@, dist), !.totalPairs = FAdd(@, F(1))]
    ELSE [c EXCEPT !.avgDist = FAdd(@, dist), !.totalPairs = FAdd(@, F(1)),
                   !.leftCounts = @ \cup {a}, !.rightCounts = @ \cup {b}]

avgLinkageLWParams(c) ==
    IF c.isWeighted
    THEN <<Rat(1, 2), Rat(1, 2), F(0), F(0)>>
    ELSE LET ni == F(Cardinality(c.leftCounts))
             nj == F(Cardinality(c.rightCounts))
         IN  <<FDiv(ni, FAdd(ni, nj)), FDiv(nj, FAdd(ni, nj)), F(0), F(0)>>

\* LWParams of a caller-supplied linkage: lwLen values
customLWParams(c) ==
    SubSeq(<<Rat(1, 2), Rat(1, 2), F(0), Rat(1, 2), F(0)>>, 1, c.lwLen)

\* LinkageType.Reset
Reset(c) ==
    CASE c.kind = "max" -> maxLinkageReset(c)
      [] c.kind = "min" -> minLinkageReset(c)
      [] c.kind = "avg" -> avgLinkageReset(c)
      [] OTHER -> maxLinkageReset(c)

\* LinkageType.Put
Put(c, a, b, dist) ==
    CASE c.kind = "max" -> maxLinkagePut(c, a, b, dist)
      [] c.kind = "min" -> minLinkagePut(c, a, b, dist)
      [] c.kind = "avg" -> avgLinkagePut(c, a, b, dist)
      [] OTHER -> maxLinkagePut(c, a, b, dist)

\* LinkageType.Get
Get(c) ==
    CASE c.kind = "max" -> maxLinkageGet(c)
      [] c.kind = "min" -> minLinkageGet(c)
      [] c.kind = "avg" -> avgLinkageGet(c)
      [] OTHER -> maxLinkageGet(c)

\* LinkageType.LWParams
LWParams(c) ==
    CASE c.kind = "max" -> maxLinkageLWParams(c)
      [] c.kind = "min" -> minLinkageLWParams(c)
      [] c.kind = "avg" -> avgLinkageLWParams(c)
      [] OTHER -> customLWParams(c)

(***************************************************************************)
(* DistanceMap cluster set (distMapClusterSet).  data maps an item to a    *)
(* map from items to distances; clusters is the slice of item slices.      *)
(* Cluster indices are zero-based as in the program: cluster i is          *)
(* clusters[i + 1].                                                        *)
(***************************************************************************)
Count(clusters) == Len(clusters)

\* the items of cluster c, in EachItem order
Items(clusters, c) == clusters[c + 1]

\* variant: the reversed pair (item2, item1) is not looked up
DistanceForwardOnly(data, c1, c2, item1, item2) ==
    IF item1 \in DOMAIN data /\ item2 \in DOMAIN data[item1]
    THEN data[item1][item2]
    ELSE DefaultDist

Distance(data, c1, c2, item1, item2) ==
    IF item1 \in DOMAIN data /\ item2 \in DOMAIN data[item1]
    THEN data[item1][item2]
    ELSE IF item2 \in DOMAIN data /\ item1 \in DOMAIN data[item2]
         THEN data[item2][item1]
         ELSE DefaultDist

\* variant: j is not moved to the end index after the swap, so the slice is
\* cut at the old j
MergeCutAtJ(clusters, i0, j0) ==
    LET i == IF j0 < i0 THEN j0 ELSE i0
        j == IF j0 < i0 THEN i0 ELSE j0
        x == Len(clusters) - 1
        swapped == IF j < x
                   THEN [clusters EXCEPT ![x + 1] = clusters[j + 1],
                                         ![j + 1] = clusters[x + 1]]
                   ELSE clusters
        joined == [swapped EXCEPT ![i + 1] = swapped[i + 1] \o swapped[j + 1]]
    IN  [clusters |-> SubSeq(joined, 1, j), keep |-> i, swappedIn |-> x]

\* Merge(i, j): the new clusters slice and the returned (keep, swappedIn)
Merge(clusters, i0, j0) ==
    LET i == IF j0 < i0 THEN j0 ELSE i0
        j == IF j0 < i0 THEN i0 ELSE j0
        x == Len(clusters) - 1
        swapped == IF j < x
                   THEN [clusters EXCEPT ![x + 1] = clusters[j + 1],
                                         ![j + 1] = clusters[x + 1]]
                   ELSE clusters
        j2 == IF j < x THEN x ELSE j
        joined == [swapped EXCEPT ![i + 1] = swapped[i + 1] \o swapped[j2 + 1]]
    IN  [clusters |-> SubSeq(joined, 1, j2), keep |-> i, swappedIn |-> x]

\* item sequence se with item x appended unless already present
AppendNew(se, x) ==
    IF \E n \in 1..Len(se) : se[n] = x THEN se ELSE Append(se, x)

\* the item orders the inner loop of NewDistanceMapClusterSet can produce
\* from order when it ranges over the keys subs of one inner map
RECURSIVE AddSubs(_, _)
AddSubs(order, subs) ==
    IF subs = {} THEN {order}
    ELSE UNION {Let(AppendNew(order, k2), LAMBDA o2 : AddSubs(o2, subs \ {k2})) :
                   k2 \in subs}

\* the item orders the outer loop of NewDistanceMapClusterSet can produce
\* from order when it still has to range over the outer keys
RECURSIVE AddKeys(_, _, _)
AddKeys(data, order, keys) ==
    IF keys = {} THEN {order}
    ELSE UNION {UNION {AddKeys(data, o2, keys \ {k1}) :
                          o2 \in AddSubs(AppendNew(order, k1), DOMAIN data[k1])} :
                   k1 \in keys}

\* NewDistanceMapClusterSet: one singleton cluster per item, in any order
\* the two map iterations can yield
NewDistanceMapClusterSet(data) ==
    {[n \in 1..Len(o) |-> <<o[n]>>] : o \in AddKeys(data, <<>>, DOMAIN data)}

(***************************************************************************)
(* Checkers (stop criteria).                                               *)
(***************************************************************************)
Threshold(t) == [kind |-> "threshold", val |-> t]

MaxClusters(t) == [kind |-> "maxclusters", val |-> t]

\* variant: the threshold itself is no longer accepted
simpleThresholdCheckStrict(t, clusters, i, j, nextScore) == FLt(nextScore, t.val)

simpleThresholdCheck(t, clusters, i, j, nextScore) == FLe(nextScore, t.val)

limitClustersCountCheck(t, clusters, i, j, nextScore) == Count(clusters) > t.val

\* Checker.Check
Check(t, clusters, i, j, nextScore) ==
    IF t.kind = "threshold"
    THEN simpleThresholdCheck(t, clusters, i, j, nextScore)
    ELSE limitClustersCountCheck(t, clusters, i, j, nextScore)

(***************************************************************************)
(* State.                                                                  *)
(*   data          the DistanceMap of the cluster set                      *)
(*   clusters      distMapClusterSet.clusters                              *)
(*   LinkageType   HClustering.LinkageType (the linkage object)            *)
(*   Checker       HClustering.Checker                                     *)
(*   lwCache       HClustering.lwCache                                     *)
(*   distCache     HClustering.distCache: outer key -> (inner key -> score)*)
(*   distCacheNil  TRUE while HClustering.distCache is the nil map         *)
(*   calls         the Check and Merge calls made so far, in order         *)
(*   puts          the distances Put into LinkageType since its last Reset *)
(*                 (kept by the linkage specification only)                *)
(*   distanceCalls the cluster arguments <<c1, c2>> of the calls of        *)
(*                 ClusterSet.Distance made so far                         *)
(*   pc            "run" inside Cluster's loop, "done" after Cluster has   *)
(*                 returned, "panic" after a run-time panic; "new",        *)
(*                 "reset", "put" for a linkage object used on its own     *)
(***************************************************************************)
VARIABLES data, clusters, LinkageType, Checker, lwCache, distCache,
          distCacheNil, calls, puts, distanceCalls, pc

vars == <<data, clusters, LinkageType, Checker, lwCache, distCache,
          distCacheNil, calls, puts, distanceCalls, pc>>

(***************************************************************************)
(* Go maps.                                                                *)
(***************************************************************************)
EmptyMap == <<>>

MapSet(m, k, v) == (k :> v) @@ m

MapDel(m, k) == [x \in DOMAIN m \ {k} |-> m[x]]

\* whether distCache[i][j] is present
CacheHas(dc, i, j) == i \in DOMAIN dc /\ j \in DOMAIN dc[i]

\* the value read by distCache[i][j]: the zero value when absent
CacheGet(dc, i, j) == IF CacheHas(dc, i, j) THEN dc[i][j] ELSE F(0)

\* distCache[i][j] = v on the engine h: writing through a missing outer key
\* is an assignment to an entry of a nil map and panics
CacheSet(h, i, j, v) ==
    IF i \in DOMAIN h.distCache
    THEN [h EXCEPT !.distCache = MapSet(@, i, MapSet(@[i], j, v))]
    ELSE [h EXCEPT !.panicked = TRUE]

(***************************************************************************)
(* The engine.  h is the HClustering value together with the cluster set   *)
(* it points to: [LinkageType, clusters, lwCache, distCache, distCacheNil, *)
(* calls, distanceCalls, panicked].                                        *)
(***************************************************************************)
\* EachCluster(start, cb): the cluster ids handed to cb, in order
EachCluster(cl, start) ==
    IF start + 1 >= Len(cl) THEN <<>>
    ELSE [n \in 1..(Len(cl) - start - 1) |-> start + n]

\* defaultOptimizedClusterSet.EachItemDistance with the callback of dist:
\* Put every (item1, item2) for the items of c2 from position n on
RECURSIVE EachItemDistance(_, _, _, _, _, _)
EachItemDistance(lt, cl, c1, c2, item1, n) ==
    IF n > Len(Items(cl, c2)) THEN lt
    ELSE Let(Items(cl, c2)[n], LAMBDA item2 :
         Let(Put(lt, item1, item2, Distance(data, c1, c2, item1, item2)),
             LAMBDA lt2 : EachItemDistance(lt2, cl, c1, c2, item1, n + 1)))

\* the EachItem loop of dist over the items of cluster i from position n on
RECURSIVE EachItem(_, _, _, _, _)
EachItem(lt, cl, i, j, n) ==
    IF n > Len(Items(cl, i)) THEN lt
    ELSE Let(EachItemDistance(lt, cl, i, j, Items(cl, i)[n], 1),
             LAMBDA lt2 : EachItem(lt2, cl, i, j, n + 1))

\* the linkage object after Reset and the Put of every item pair of (i, j)
Accumulate(lt, cl, i, j) ==
    Let(Reset(lt), LAMBDA lt2 : EachItem(lt2, cl, i, j, 1))

\* HClustering.dist: the engine afterwards and the returned score; a
\* computed score calls Distance(i, j, a, b) for every item a of i and b
\* of j
dist(h, i0, j0) ==
    LET sw == ~h.distCacheNil /\ i0 > j0
        i  == IF sw THEN j0 ELSE i0
        j  == IF sw THEN i0 ELSE j0
    IN  IF ~h.distCacheNil /\ CacheHas(h.distCache, i, j)
        THEN [h |-> h, s |-> h.distCache[i][j]]
        ELSE Let(Accumulate(h.LinkageType, h.clusters, i, j), LAMBDA lt :
             LET s  == Get(lt)
                 dc == IF h.distCacheNil THEN h.distCache
                       ELSE IF i \in DOMAIN h.distCache
                            THEN MapSet(h.distCache, i, MapSet(h.distCache[i], j, s))
                            ELSE MapSet(h.distCache, i, MapSet(EmptyMap, j, s))
                 called == IF Len(Items(h.clusters, i)) > 0 /\
                              Len(Items(h.clusters, j)) > 0
                           THEN {<<i, j>>} ELSE {}
             IN  [h |-> [h EXCEPT !.LinkageType = lt, !.distCache = dc,
                                  !.distanceCalls = @ \cup called],
                  s |-> s])

\* the snapshot loop of mergeAndUpdateAll from k on: the engine afterwards
\* and the slices diks and djks
RECURSIVE Snapshot(_, _, _, _, _, _, _)
Snapshot(h, i, j, k, nc, diks, djks) ==
    IF k >= nc THEN [h |-> h, diks |-> diks, djks |-> djks]
    ELSE Let(dist(h, i, k), LAMBDA ri :
         Let(dist(ri.h, j, k), LAMBDA rj :
         Let(<<Append(diks, ri.s), Append(djks, rj.s)>>, LAMBDA ds :
             Snapshot(rj.h, i, j, k + 1, nc, ds[1], ds[2]))))

RECURSIVE MoveCachedStale(_, _, _, _, _)
RECURSIVE MoveCached(_, _, _, _, _)
\* variant: the values cached for r are kept instead of those of nj
MoveCachedStale(h, r, nj, nc, k) ==
    IF k >= nc \/ h.panicked THEN h
    ELSE IF k = nj THEN MoveCached(h, r, nj, nc, k + 1)
    ELSE LET x1 == IF k > r THEN r ELSE k
             y1 == IF k > r THEN k ELSE r
         IN  Let(CacheSet(h, x1, y1, CacheGet(h.distCache, x1, y1)),
                 LAMBDA h2 : MoveCached(h2, r, nj, nc, k + 1))

\* the loop of mergeAndUpdateAll that moves the cached distances of nj into
\* r, from k on
MoveCached(h, r, nj, nc, k) ==
    IF k >= nc \/ h.panicked THEN h
    ELSE IF k = nj THEN MoveCached(h, r, nj, nc, k + 1)
    ELSE LET x1 == IF k > r THEN r ELSE k
             y1 == IF k > r THEN k ELSE r
             x2 == IF k > nj THEN nj ELSE k
             y2 == IF k > nj THEN k ELSE nj
         IN  Let(CacheSet(h, x1, y1, CacheGet(h.distCache, x2, y2)),
                 LAMBDA h2 : MoveCached(h2, r, nj, nc, k + 1))

\* the loop of mergeAndUpdateAll that removes the cache values of nj, from
\* k on
RECURSIVE RemoveUnused(_, _, _, _)
RemoveUnused(dc, nj, nc, k) ==
    IF k >= nc THEN dc
    ELSE Let(IF k = nj THEN MapDel(dc, nj)
             ELSE IF k \in DOMAIN dc THEN MapSet(dc, k, MapDel(dc[k], nj))
                  ELSE dc,
             LAMBDA dc2 : RemoveUnused(dc2, nj, nc, k + 1))

\* the Lance-Williams recurrence of mergeAndUpdateAll
LanceWilliams(lw, dik, djk, origDist) ==
    Let(FSub(dik, djk), LAMBDA dd0 :
        LET dd == IF FLt(dd0, F(0)) THEN FSub(F(0), dd0) ELSE dd0
        IN  FAdd(FAdd(FAdd(FMul(lw[1], dik), FMul(lw[2], djk)),
                      FMul(lw[3], origDist)),
                 FMul(lw[4], dd)))

\* the Lance-Williams update loop of mergeAndUpdateAll, from k on; reading
\* lwCache[0..3] of a shorter slice is an index out of range and panics
RECURSIVE UpdateAll(_, _, _, _, _, _, _)
UpdateAll(h, ni, nc, diks, djks, origDist, k) ==
    IF k >= nc \/ h.panicked THEN h
    ELSE IF Len(h.lwCache) < 4 THEN [h EXCEPT !.panicked = TRUE]
    ELSE Let(LanceWilliams(h.lwCache, diks[k + 1], djks[k + 1], origDist),
             LAMBDA d :
         Let(IF ni < k THEN CacheSet(h, ni, k, d) ELSE CacheSet(h, k, ni, d),
             LAMBDA h2 : UpdateAll(h2, ni, nc, diks, djks, origDist, k + 1)))

\* the engine after ClusterSet.Merge(i, j), with the call recorded (cl,
\* count and pairs: the clusters, Count() and the number of item pairs of
\* (i, j) when the call is made)
DoMerge(h, i, j) ==
    [h EXCEPT !.clusters = Merge(h.clusters, i, j).clusters,
              !.calls = Append(@, [op |-> "Merge", i |-> i, j |-> j,
                                   score |-> F(0), count |-> Count(h.clusters),
                                   cl |-> h.clusters,
                                   pairs |-> Len(Items(h.clusters, i)) *
                                             Len(Items(h.clusters, j)),
                                   ret |-> TRUE])]

\* HClustering.mergeAndUpdateAll
mergeAndUpdateAll(h, i, j) ==
    Let(Count(h.clusters), LAMBDA nc :
    Let(Snapshot(h, i, j, 0, nc, <<>>, <<>>), LAMBDA snap :
    Let(Merge(h.clusters, i, j), LAMBDA m :
    Let(DoMerge(snap.h, i, j), LAMBDA h2 :
        LET origDist == snap.diks[j + 1]
            ni == m.keep
            nj == m.swappedIn
            r  == IF ni = j THEN i ELSE j
        IN  Let(IF nj # j
                THEN Let(MoveCached(h2, r, nj, nc, 0), LAMBDA hm :
                         IF hm.panicked THEN hm
                         ELSE [hm EXCEPT !.distCache =
                                             RemoveUnused(@, nj, nc, 0)])
                ELSE h2,
                LAMBDA h3 : UpdateAll(h3, ni, nc - 1, snap.diks, snap.djks,
                                      origDist, 0))))))

\* the best-pair search of MergeNext: the inner EachCluster callback over
\* the ids c2s from position n on
RECURSIVE SearchInner(_, _, _, _)
SearchInner(b, c1, c2s, n) ==
    IF n > Len(c2s) THEN b
    ELSE Let(dist(b.h, c1, c2s[n]), LAMBDA r :
         Let(IF FLt(r.s, b.bestScore)
             THEN [h |-> r.h, bestScore |-> r.s, bestPair |-> <<c1, c2s[n]>>]
             ELSE [b EXCEPT !.h = r.h],
             LAMBDA b2 : SearchInner(b2, c1, c2s, n + 1)))

\* the outer EachCluster callback over the ids c1s from position n on
RECURSIVE SearchOuter(_, _, _)
SearchOuter(b, c1s, n) ==
    IF n > Len(c1s) THEN b
    ELSE Let(EachCluster(b.h.clusters, c1s[n]), LAMBDA c2s :
         Let(SearchInner(b, c1s[n], c2s, 1),
             LAMBDA b2 : SearchOuter(b2, c1s, n + 1)))

\* variant: the result of Checker.Check is ignored
CommitAlways(hc, ok, i, j) ==
    IF hc.distCacheNil
    THEN [h |-> DoMerge(hc, i, j), ret |-> TRUE]
    ELSE [h |-> mergeAndUpdateAll(hc, i, j), ret |-> TRUE]

\* the end of MergeNext once Checker.Check has returned ok for (i, j): give
\* up on a veto, otherwise merge directly or through mergeAndUpdateAll
Commit(hc, ok, i, j) ==
    IF ~ok THEN [h |-> hc, ret |-> FALSE]
    ELSE IF hc.distCacheNil
         THEN [h |-> DoMerge(hc, i, j), ret |-> TRUE]
         ELSE [h |-> mergeAndUpdateAll(hc, i, j), ret |-> TRUE]

\* HClustering.MergeNext: the engine afterwards and the returned boolean
MergeNext(h0) ==
    Let(IF Len(h0.lwCache) # 4
        THEN [h0 EXCEPT !.lwCache = LWParams(h0.LinkageType),
                        !.distCache = EmptyMap,
                        !.distCacheNil = FALSE]
        ELSE h0, LAMBDA h1 :
    Let(EachCluster(h1.clusters, -1), LAMBDA c1s :
    Let(SearchOuter([h |-> h1, bestScore |-> MaxFloat64, bestPair |-> <<>>],
                    c1s, 1), LAMBDA b :
        IF Len(b.bestPair) = 0 \/ FEq(b.bestScore, MaxFloat64)
        THEN [h |-> b.h, ret |-> FALSE]
        ELSE Let(Check(Checker, b.h.clusters, b.bestPair[1], b.bestPair[2],
                       b.bestScore), LAMBDA ok :
             Let([b.h EXCEPT !.calls =
                     Append(@, [op |-> "Check", i |-> b.bestPair[1],
                                j |-> b.bestPair[2],
                                score |-> b.bestScore,
                                count |-> Count(b.h.clusters),
                                cl |-> b.h.clusters,
                                pairs |->
                                    Len(Items(b.h.clusters, b.bestPair[1])) *
                                    Len(Items(b.h.clusters, b.bestPair[2])),
                                ret |-> ok])], LAMBDA hc :
                 Commit(hc, ok, b.bestPair[1], b.bestPair[2]))))))

\* the HClustering value of the current state
H == [LinkageType |-> LinkageType, clusters |-> clusters, lwCache |-> lwCache,
      distCache |-> distCache, distCacheNil |-> distCacheNil, calls |-> calls,
      distanceCalls |-> distanceCalls, panicked |-> FALSE]

(***************************************************************************)
(* The engine without the distance cache (doc.go): every MergeNext         *)
(* recomputes the score of every pair.  u is [LinkageType, clusters,       *)
(* merges], merges being the Merge(i, j) calls made so far.                *)
(***************************************************************************)
\* the inner EachCluster callback of the uncached MergeNext over the ids
\* c2s from position n on
RECURSIVE uncachedSearchInner(_, _, _, _, _)
uncachedSearchInner(b, cl, c1, c2s, n) ==
    IF n > Len(c2s) THEN b
    ELSE Let(Accumulate(b.lt, cl, c1, c2s[n]), LAMBDA lt :
         Let(Get(lt), LAMBDA score :
         Let(IF FLt(score, b.bestScore)
             THEN [lt |-> lt, bestScore |-> score, bestPair |-> <<c1, c2s[n]>>]
             ELSE [b EXCEPT !.lt = lt],
             LAMBDA b2 : uncachedSearchInner(b2, cl, c1, c2s, n + 1))))

\* the outer EachCluster callback of the uncached MergeNext
RECURSIVE uncachedSearchOuter(_, _, _, _)
uncachedSearchOuter(b, cl, c1s, n) ==
    IF n > Len(c1s) THEN b
    ELSE Let(uncachedSearchInner(b, cl, c1s[n], EachCluster(cl, c1s[n]), 1),
             LAMBDA b2 : uncachedSearchOuter(b2, cl, c1s, n + 1))

\* the uncached HClustering.MergeNext: the engine afterwards and the
\* returned boolean
uncachedMergeNext(u, chk) ==
    Let(uncachedSearchOuter([lt |-> u.LinkageType, bestScore |-> MaxFloat64,
                             bestPair |-> <<>>],
                            u.clusters, EachCluster(u.clusters, -1), 1),
        LAMBDA b :
        IF Len(b.bestPair) = 0 \/ FEq(b.bestScore, MaxFloat64)
        THEN [u |-> [u EXCEPT !.LinkageType = b.lt], ret |-> FALSE]
        ELSE IF ~Check(chk, u.clusters, b.bestPair[1], b.bestPair[2],
                       b.bestScore)
        THEN [u |-> [u EXCEPT !.LinkageType = b.lt], ret |-> FALSE]
        ELSE [u |-> [LinkageType |-> b.lt,
                     clusters |-> Merge(u.clusters, b.bestPair[1],
                                        b.bestPair[2]).clusters,
                     merges |-> Append(u.merges, b.bestPair)],
              ret |-> TRUE])

\* the uncached Cluster: MergeNext until one cluster is left or MergeNext
\* returns false
RECURSIVE uncachedCluster(_, _)
uncachedCluster(u, chk) ==
    IF Count(u.clusters) <= 1 THEN u
    ELSE Let(uncachedMergeNext(u, chk), LAMBDA r :
             IF r.ret THEN uncachedCluster(r.u, chk) ELSE r.u)

(***************************************************************************)
(* Actions: Cluster's loop.                                                *)
(***************************************************************************)
\* one iteration of the loop of Cluster: Count() > 1 and a MergeNext; the
\* loop is left when MergeNext returns false
ClusterStep ==
    /\ pc = "run"
    /\ Count(clusters) > 1
    /\ \E r \in {MergeNext(H)} :
           /\ clusters' = r.h.clusters
           /\ LinkageType' = r.h.LinkageType
           /\ lwCache' = r.h.lwCache
           /\ distCache' = r.h.distCache
           /\ distCacheNil' = r.h.distCacheNil
           /\ calls' = r.h.calls
           /\ distanceCalls' = r.h.distanceCalls
           /\ pc' = IF r.h.panicked THEN "panic"
                    ELSE IF r.ret THEN "run" ELSE "done"
    /\ UNCHANGED <<data, Checker, puts>>

\* the loop condition of Cluster fails: Cluster returns
ClusterReturn ==
    /\ pc = "run"
    /\ Count(clusters) <= 1
    /\ pc' = "done"
    /\ UNCHANGED <<data, clusters, LinkageType, Checker, lwCache, distCache,
                   distCacheNil, calls, puts, distanceCalls>>

Next == ClusterStep \/ ClusterReturn

(***************************************************************************)
(* Inputs.                                                                 *)
(***************************************************************************)
\* the distance map of the README and of TestDistanceMapClustering3
Scenario1 ==
    [a |-> [b |-> F(0), c |-> F(0), d |-> F(1), e |-> Rat(2, 5)],
     b |-> [c |-> Rat(1, 10), d |-> Rat(9, 10), e |-> Rat(2, 5)],
     c |-> [d |-> Rat(9, 10), e |-> Rat(1, 5)],
     d |-> [e |-> Rat(1, 10)]]

ItemSeq == <<"a", "b", "c", "d", "e", "f">>

GenItems == {ItemSeq[n] : n \in 1..NumItems}

\* the item pairs a generated map may have an entry for
UpperPairs == {<<ItemSeq[m], ItemSeq[n]>> : m, n \in 1..NumItems} \cap
              {<<ItemSeq[p[1]], ItemSeq[p[2]]>> :
                  p \in {q \in (1..NumItems) \X (1..NumItems) : q[1] < q[2]}}

\* the distances a generated map may hold; a pair without an entry is at
\* the default distance
PairVals == {F(0)}

\* marks a pair a generated map has no entry for
Absent == <<0, -1>>

\* the DistanceMap with the entries f gives to the pairs of UpperPairs
MapOf(f) ==
    LET subs(x) == {y \in GenItems : <<x, y>> \in UpperPairs /\ f[<<x, y>>] # Absent}
        keys == {x \in GenItems : subs(x) # {}}
    IN  [x \in keys |-> [y \in subs(x) |-> f[<<x, y>>]]]

GenMaps == {MapOf(f) : f \in [UpperPairs -> PairVals \cup {Absent}]}

\* a map with a single item, and a map that has entries for (x, x)
SingleItem == "a" :> EmptyMap

SelfMap ==
    [a |-> [a |-> F(0), b |-> Rat(1, 2), c |-> F(0)],
     b |-> [b |-> F(0), c |-> Rat(1, 2)],
     c |-> [c |-> F(0)]]

DataSets == {Scenario1, SingleItem, SelfMap} \cup GenMaps

BuiltinLinkages ==
    {CompleteLinkage, SingleLinkage, AverageLinkage, WeightedAverageLinkage}

\* the (linkage, checker) pairs Cluster is called with
Configs ==
    (BuiltinLinkages \X {Threshold(Rat(2, 5)), Threshold(F(1)), MaxClusters(2)})
    \cup ({CustomLinkage(0), CustomLinkage(5)} \X {Threshold(F(1))})

\* the state at the call of Cluster(c, chk, lt) on a new DistanceMap
\* cluster set
Init ==
    \E d \in DataSets, cfg \in Configs :
        \E cl \in NewDistanceMapClusterSet(d) :
            /\ data = d
            /\ clusters = cl
            /\ LinkageType = cfg[1]
            /\ Checker = cfg[2]
            /\ lwCache = <<>>
            /\ distCache = EmptyMap
            /\ distCacheNil = TRUE
            /\ calls = <<>>
            /\ puts = <<>>
            /\ distanceCalls = {}
            /\ pc = "run"

Spec == Init /\ [][Next]_vars

\* the runs of Cluster with CompleteLinkage and a Threshold checker
InitComplete ==
    /\ Init
    /\ LinkageType = CompleteLinkage
    /\ Checker.kind = "threshold"

\* Cluster is a sequential loop: an enabled step is eventually taken
FairSpec == InitComplete /\ [][Next]_vars /\ WF_vars(Next)

(***************************************************************************)
(* A caller-supplied cluster set: stored like the DistanceMap cluster set, *)
(* but handed to Cluster with pre-grouped clusters, some possibly empty.   *)
(***************************************************************************)
\* the items a assigns to slot k, in ItemSeq order
RECURSIVE SlotItems(_, _, _)
SlotItems(a, k, n) ==
    IF n > NumItems THEN <<>>
    ELSE IF a[ItemSeq[n]] = k THEN <<ItemSeq[n]>> \o SlotItems(a, k, n + 1)
         ELSE SlotItems(a, k, n + 1)

\* every grouping of the generated items into 2..NumItems clusters
UserClusterSets ==
    UNION {{[k \in 1..nslots |-> SlotItems(a, k, 1)] :
               a \in [GenItems -> 1..nslots]} : nslots \in 2..NumItems}

InitUser ==
    \E d \in GenMaps, lt \in BuiltinLinkages, chk \in {Threshold(F(1))} :
        \E cl \in UserClusterSets :
            /\ data = d
            /\ clusters = cl
            /\ LinkageType = lt
            /\ Checker = chk
            /\ lwCache = <<>>
            /\ distCache = EmptyMap
            /\ distCacheNil = TRUE
            /\ calls = <<>>
            /\ puts = <<>>
            /\ distanceCalls = {}
            /\ pc = "run"

SpecUser == InitUser /\ [][Next]_vars

(***************************************************************************)
(* A linkage object used on its own: cycles of Reset, Put of up to MaxPuts *)
(* distances, and Get.  calls holds the Get of the latest completed cycle. *)
(***************************************************************************)
\* the distances handed to Put
PutVals == {F(-2), F(-1), Rat(-1, 2), F(0), Rat(1, 2), F(2)}

InitLinkage ==
    /\ LinkageType \in BuiltinLinkages
    /\ puts = <<>>
    /\ pc = "new"
    /\ data = EmptyMap
    /\ clusters = <<>>
    /\ Checker = Threshold(F(0))
    /\ lwCache = <<>>
    /\ distCache = EmptyMap
    /\ distCacheNil = TRUE
    /\ calls = <<>>
    /\ distanceCalls = {}

LinkageReset ==
    /\ pc \in {"new", "reset", "put"}
    /\ LinkageType' = Reset(LinkageType)
    /\ puts' = <<>>
    /\ pc' = "reset"
    /\ calls' = IF pc = "put"
                THEN <<[op |-> "Get", ret |-> Get(LinkageType)]>>
                ELSE calls
    /\ UNCHANGED <<data, clusters, Checker, lwCache, distCache, distCacheNil,
                   distanceCalls>>

LinkagePut ==
    /\ pc \in {"reset", "put"}
    /\ Len(puts) < MaxPuts
    /\ \E a \in {"a", "b"}, b \in {"c", "d"}, dv \in PutVals :
           /\ LinkageType' = Put(LinkageType, a, b, dv)
           /\ puts' = Append(puts, dv)
    /\ pc' = "put"
    /\ UNCHANGED <<data, clusters, Checker, lwCache, distCache, distCacheNil,
                   calls, distanceCalls>>

NextLinkage == LinkageReset \/ LinkagePut

SpecLinkage == InitLinkage /\ [][NextLinkage]_vars

(***************************************************************************)
(* A DistanceMap cluster set asked for distances: the map may hold (x, y), *)
(* (y, x), both with different values, or neither, and (x, x).             *)
(***************************************************************************)
\* the items of the maps, and an item no map has
DistItems == {"a", "b"}

DistArgs == DistItems \cup {"c"}

\* the distances the maps may hold
DistVals == {F(0), Rat(1, 2), F(2)}

\* the DistanceMap with the entries f gives to the ordered pairs of
\* DistItems
FullMapOf(f) ==
    LET subs(x) == {y \in DistItems : f[<<x, y>>] # Absent}
        keys == {x \in DistItems : subs(x) # {}}
    IN  [x \in keys |-> [y \in subs(x) |-> f[<<x, y>>]]]

DistMaps ==
    {FullMapOf(f) : f \in [DistItems \X DistItems -> DistVals \cup {Absent}]}

InitDistance ==
    /\ data \in DistMaps
    /\ clusters = <<<<"a">>, <<"b">>>>
    /\ LinkageType = CompleteLinkage
    /\ Checker = Threshold(F(0))
    /\ lwCache = <<>>
    /\ distCache = EmptyMap
    /\ distCacheNil = TRUE
    /\ calls = <<>>
    /\ puts = <<>>
    /\ distanceCalls = {}
    /\ pc = "distance"

\* a call Distance(c1, c2, item1, item2); calls holds the latest call and
\* its result
DistanceCall ==
    /\ pc = "distance"
    /\ \E c1, c2 \in 0..1, item1, item2 \in DistArgs :
           calls' = <<[op |-> "Distance", c1 |-> c1, c2 |-> c2,
                       item1 |-> item1, item2 |-> item2,
                       ret |-> Distance(data, c1, c2, item1, item2)]>>
    /\ UNCHANGED <<data, clusters, LinkageType, Checker, lwCache, distCache,
                   distCacheNil, puts, distanceCalls, pc>>

NextDistance == DistanceCall

SpecDistance == InitDistance /\ [][NextDistance]_vars

(***************************************************************************)
(* A DistanceMap cluster set merged by its caller: any sequence of         *)
(* Merge(i, j) calls with distinct live i and j, in either argument order. *)
(* calls holds the latest call and its results.                            *)
(***************************************************************************)
InitMerge ==
    \E d \in {Scenario1} \cup GenMaps :
        \E cl \in NewDistanceMapClusterSet(d) :
            /\ data = d
            /\ clusters = cl
            /\ LinkageType = CompleteLinkage
            /\ Checker = Threshold(F(0))
            /\ lwCache = <<>>
            /\ distCache = EmptyMap
            /\ distCacheNil = TRUE
            /\ calls = <<>>
            /\ puts = <<>>
            /\ distanceCalls = {}
            /\ pc = "merge"

MergeCall ==
    /\ pc = "merge"
    /\ \E i, j \in 0..(Count(clusters) - 1) :
           /\ i # j
           /\ \E m \in {Merge(clusters, i, j)} :
                  /\ clusters' = m.clusters
                  /\ calls' = <<[op |-> "Merge", i |-> i, j |-> j,
                                 keep |-> m.keep,
                                 swappedIn |-> m.swappedIn]>>
    /\ UNCHANGED <<data, LinkageType, Checker, lwCache, distCache,
                   distCacheNil, puts, distanceCalls, pc>>

NextMerge == MergeCall

SpecMerge == InitMerge /\ [][NextMerge]_vars

(***************************************************************************)
(* float64 with its rounding (IEEE 754 binary64, round to nearest, ties to *)
(* even), for the arithmetic of the Lance-Williams recurrence.  A natural  *)
(* number is the sequence of its binary digits, least significant first,   *)
(* without leading zeros.  A float64 is [neg, m, e] with the value         *)
(* (-1)^neg * m * 2^e, m of exactly 53 digits, or m = <<>> for zero; the   *)
(* exact result of an operation is such a record with m of any length.     *)
(* Exponent overflow, subnormal numbers, infinities and the sign of zero   *)
(* are not modelled: the scores of the model are far from those ranges.    *)
(***************************************************************************)
BitAt(x, k) == IF k >= 1 /\ k <= Len(x) THEN x[k] ELSE 0

\* x without its leading zeros
BTrim(x) ==
    LET top == CHOOSE t \in 0..Len(x) :
                   /\ (t > 0 => x[t] = 1)
                   /\ \A k \in (t + 1)..Len(x) : x[k] = 0
    IN  SubSeq(x, 1, top)

\* the digits k .. k + n - 1 of x as a number: one limb of x
RECURSIVE LimbVal(_, _, _)
LimbVal(x, k, n) ==
    IF n = 0 THEN 0 ELSE BitAt(x, k) + 2 * LimbVal(x, k + 1, n - 1)

\* limb i of x, limbs being 15 digits wide
Limb(x, i) == LimbVal(x, (i - 1) * 15 + 1, 15)

\* the number with the limbs ls, as digits
FromLimbs(ls) ==
    BTrim([k \in 1..(15 * Len(ls)) |->
              (ls[((k - 1) \div 15) + 1] \div (2 ^ ((k - 1) % 15))) % 2])

\* the limbs of x + y from limb i on, c being the carry into limb i
RECURSIVE AddLimbs(_, _, _, _, _, _)
AddLimbs(x, y, i, n, c, acc) ==
    IF i > n THEN acc
    ELSE Let(Limb(x, i) + Limb(y, i) + c, LAMBDA t :
         Let(Append(acc, t % 32768), LAMBDA acc2 :
             AddLimbs(x, y, i + 1, n, t \div 32768, acc2)))

BAdd(x, y) ==
    FromLimbs(AddLimbs(x, y, 1,
                       ((IF Len(x) > Len(y) THEN Len(x) ELSE Len(y)) \div 15) + 1,
                       0, <<>>))

\* the limbs of x - y (x >= y) from limb i on, c being the borrow
RECURSIVE SubLimbs(_, _, _, _, _, _)
SubLimbs(x, y, i, n, c, acc) ==
    IF i > n THEN acc
    ELSE Let(Limb(x, i) - Limb(y, i) - c, LAMBDA t :
         Let(Append(acc, IF t < 0 THEN t + 32768 ELSE t), LAMBDA acc2 :
             SubLimbs(x, y, i + 1, n, IF t < 0 THEN 1 ELSE 0, acc2)))

BSub(x, y) == FromLimbs(SubLimbs(x, y, 1, (Len(x) \div 15) + 1, 0, <<>>))

BLess(x, y) ==
    \/ Len(x) < Len(y)
    \/ /\ Len(x) = Len(y)
       /\ \E k \in 1..Len(x) :
              /\ x[k] < y[k]
              /\ \A j \in (k + 1)..Len(x) : x[j] = y[j]

\* x * 2^n
BShl(x, n) ==
    IF x = <<>> THEN <<>>
    ELSE [k \in 1..(Len(x) + n) |-> IF k <= n THEN 0 ELSE x[k - n]]

\* x * y added to acc: the sum of y * 2^(k-1) over the digits k of x that
\* are 1, from the lowest such digit on
RECURSIVE BMulFrom(_, _, _)
BMulFrom(x, y, acc) ==
    IF \A k \in 1..Len(x) : x[k] = 0 THEN acc
    ELSE Let(CHOOSE k \in 1..Len(x) :
                 x[k] = 1 /\ \A j \in 1..(k - 1) : x[j] = 0, LAMBDA k :
         Let(BAdd(acc, BShl(y, k - 1)), LAMBDA acc2 :
             BMulFrom([x EXCEPT ![k] = 0], y, acc2)))

BMul(x, y) == BMulFrom(x, y, <<>>)

\* the digits of the natural number n
RECURSIVE BitsOf(_)
BitsOf(n) == IF n = 0 THEN <<>> ELSE <<n % 2>> \o BitsOf(n \div 2)

Zero64 == [neg |-> FALSE, m |-> <<>>, e |-> 0]

\* the exact sum and the exact product of two values
ExactAdd(x, y) ==
    IF x.m = <<>> THEN y
    ELSE IF y.m = <<>> THEN x
    ELSE LET e  == IF x.e < y.e THEN x.e ELSE y.e
             mx == BShl(x.m, x.e - e)
             my == BShl(y.m, y.e - e)
         IN  IF x.neg = y.neg
             THEN [neg |-> x.neg, m |-> BAdd(mx, my), e |-> e]
             ELSE IF mx = my THEN Zero64
             ELSE IF BLess(mx, my)
                  THEN [neg |-> y.neg, m |-> BSub(my, mx), e |-> e]
                  ELSE [neg |-> x.neg, m |-> BSub(mx, my), e |-> e]

ExactMul(x, y) ==
    IF x.m = <<>> \/ y.m = <<>> THEN Zero64
    ELSE [neg |-> (x.neg # y.neg), m |-> BMul(x.m, y.m), e |-> x.e + y.e]

\* the float64 nearest to the exact value x, ties to the even mantissa
Round64(x) ==
    IF x.m = <<>> THEN Zero64
    ELSE IF Len(x.m) <= 53
    THEN [neg |-> x.neg, m |-> BShl(x.m, 53 - Len(x.m)),
          e |-> x.e - (53 - Len(x.m))]
    ELSE LET drop == Len(x.m) - 53
             q    == SubSeq(x.m, drop + 1, Len(x.m))
             up   == /\ x.m[drop] = 1
                     /\ \/ \E k \in 1..(drop - 1) : x.m[k] = 1
                        \/ q[1] = 1
             q2   == IF up THEN BAdd(q, <<1>>) ELSE q
         IN  IF Len(q2) = 54
             THEN [neg |-> x.neg, m |-> SubSeq(q2, 2, 54), e |-> x.e + drop + 1]
             ELSE [neg |-> x.neg, m |-> q2, e |-> x.e + drop]

\* float64 +, -, *, unary - and <
Add64(x, y) == Round64(ExactAdd(x, y))

Neg64(x) == IF x.m = <<>> THEN x ELSE [x EXCEPT !.neg = ~@]

Sub64(x, y) == Round64(ExactAdd(x, Neg64(y)))

Mul64(x, y) == Round64(ExactMul(x, y))

Less64(x, y) ==
    LET d == ExactAdd(x, Neg64(y)) IN d.m # <<>> /\ d.neg

\* the float64 written 0x1.h p e in hexadecimal, h being 13 hexadecimal
\* digits
Hex64(h, e) ==
    [neg |-> FALSE,
     m |-> [k \in 1..53 |->
               IF k = 53 THEN 1
               ELSE LET p == 52 - k
                    IN  (h[(p \div 4) + 1] \div (2 ^ (3 - (p % 4)))) % 2],
     e |-> e - 52]

\* the float64 of a rational whose denominator is a power of two
RECURSIVE Log2(_)
Log2(d) == IF d <= 1 THEN 0 ELSE 1 + Log2(d \div 2)

Float64Of(r) ==
    Round64([neg |-> r[1] < 0, m |-> BitsOf(AbsInt(r[1])), e |-> -Log2(r[2])])

\* the Lance-Williams recurrence of mergeAndUpdateAll in float64
LanceWilliams64(lw, dik, djk, origDist) ==
    Let(Sub64(dik, djk), LAMBDA dd0 :
        LET dd == IF Less64(dd0, Zero64) THEN Neg64(dd0) ELSE dd0
        IN  Add64(Add64(Add64(Mul64(lw[1], dik), Mul64(lw[2], djk)),
                        Mul64(lw[3], origDist)),
                  Mul64(lw[4], dd)))

\* the float64 values of 0.1, 0.2, 0.4, 0.5, 0.7, 0.9 and 1.0
Tenth64 == Hex64(<<9, 9, 9, 9, 9, 9, 9, 9, 9, 9, 9, 9, 10>>, -4)

Fifth64 == Hex64(<<9, 9, 9, 9, 9, 9, 9, 9, 9, 9, 9, 9, 10>>, -3)

TwoFifths64 == Hex64(<<9, 9, 9, 9, 9, 9, 9, 9, 9, 9, 9, 9, 10>>, -2)

Half64 == Hex64(<<0, 0, 0, 0, 0, 0, 0, 0, 0, 0, 0, 0, 0>>, -1)

SevenTenths64 == Hex64(<<6, 6, 6, 6, 6, 6, 6, 6, 6, 6, 6, 6, 6>>, -1)

NineTenths64 == Hex64(<<12, 12, 12, 12, 12, 12, 12, 12, 12, 12, 12, 12, 13>>, -1)

One64 == Hex64(<<0, 0, 0, 0, 0, 0, 0, 0, 0, 0, 0, 0, 0>>, 0)

\* the scores handed to the recurrence
Scores64 == {Zero64, Tenth64, Fifth64, TwoFifths64, Half64, SevenTenths64,
             NineTenths64, One64}

InitLW ==
    /\ LinkageType \in {CompleteLinkage, SingleLinkage}
    /\ data = EmptyMap
    /\ clusters = <<>>
    /\ Checker = Threshold(F(0))
    /\ lwCache = <<>>
    /\ distCache = EmptyMap
    /\ distCacheNil = TRUE
    /\ calls = <<>>
    /\ puts = <<>>
    /\ distanceCalls = {}
    /\ pc = "lw"

\* one evaluation of the recurrence of mergeAndUpdateAll with the
\* coefficients of LinkageType; calls holds the evaluation
LWUpdate ==
    /\ pc = "lw"
    /\ calls = <<>>
    /\ \E dik, djk, origDist \in Scores64 :
           \E lw \in {[n \in 1..4 |-> Float64Of(LWParams(LinkageType)[n])]} :
               calls' = <<[op |-> "LanceWilliams", dik |-> dik, djk |-> djk,
                           origDist |-> origDist,
                           ret |-> LanceWilliams64(lw, dik, djk, origDist)]>>
    /\ UNCHANGED <<data, clusters, LinkageType, Checker, lwCache, distCache,
                   distCacheNil, puts, distanceCalls, pc>>

NextLW == LWUpdate

SpecLW == InitLW /\ [][NextLW]_vars

(***************************************************************************)
(* Properties.                                                             *)
(***************************************************************************)
\* the set of items of a cluster
Members(cl, c) == {Items(cl, c)[n] : n \in 1..Len(Items(cl, c))}

\* the memberships of the live clusters
Partition(cl) == {Members(cl, c) : c \in 0..(Count(cl) - 1)}

\* the linkage score of (i, j) computed from scratch: Reset, Put of every
\* cross-cluster item pair of the current memberships, Get
FromScratch(i, j) == Get(Accumulate(LinkageType, clusters, i, j))

\* the number of Merge calls made so far
Merges == Cardinality({n \in 1..Len(calls) : calls[n].op = "Merge"})

\* C1: at every point of a Cluster run, for every pair of live cluster
\* indices i < j the distance cache has no entry for (i, j) or the entry
\* equals the linkage score computed from scratch over the current
\* memberships of i and j.
C1_CacheCorrect ==
    (pc \in {"run", "done"} /\ ~distCacheNil) =>
        \A i, j \in 0..(Count(clusters) - 1) :
            (i < j /\ CacheHas(distCache, i, j)) =>
                distCache[i][j] = FromScratch(i, j)

\* C2: on the Scenario 1 map, Cluster with CompleteLinkage and
\* Threshold(0.4) ends with exactly the 2 clusters {d,e} and {a,b,c}, for
\* every initial order of the singleton clusters.
C2_ScenarioOne ==
    (/\ data = Scenario1
     /\ LinkageType.kind = "max"
     /\ Checker = Threshold(Rat(2, 5))
     /\ pc # "run") =>
        /\ pc = "done"
        /\ Count(clusters) = 2
        /\ Partition(clusters) = {{"d", "e"}, {"a", "b", "c"}}

\* the items of the DistanceMap: its keys and the keys of its inner maps
DataItems == DOMAIN data \cup UNION {DOMAIN data[k] : k \in DOMAIN data}

\* the built-in linkage types
Builtin == LinkageType.kind \in {"max", "min", "avg"}

\* the largest and the smallest of a non-empty sequence of distances
SeqMax(se) == CHOOSE m \in {se[n] : n \in 1..Len(se)} :
                  \A n \in 1..Len(se) : FLe(se[n], m)

SeqMin(se) == CHOOSE m \in {se[n] : n \in 1..Len(se)} :
                  \A n \in 1..Len(se) : FLe(m, se[n])

\* C3 (precondition): CompleteLinkage, at least one item, and a Threshold
\* at least as large as every item distance of the map
C3_Pre ==
    /\ LinkageType.kind = "max"
    /\ Checker.kind = "threshold"
    /\ DataItems # {}
    /\ pc \in {"run", "done"}
    /\ \A x, y \in DataItems : FLe(Distance(data, 0, 0, x, y), Checker.val)

\* C3: for every DistanceMap cluster set of N >= 1 singleton clusters,
\* Cluster with CompleteLinkage and a Threshold at least as large as every
\* score that can arise eventually terminates with Count() = 1, the single
\* cluster holding all N items.
C3_Terminates ==
    C3_Pre ~> (/\ pc = "done"
               /\ Count(clusters) = 1
               /\ Members(clusters, 0) = DataItems)

C3_Witness ==
    /\ C3_Pre
    /\ pc = "done"
    /\ Count(clusters) = 1
    /\ Merges >= 2
    /\ Members(clusters, 0) = DataItems

\* C4: on a 5-item DistanceMap cluster set, Cluster with MaxClusters(2)
\* stops with exactly 2 clusters for each built-in linkage type.
C4_MaxClustersTwo ==
    (/\ Cardinality(DataItems) = 5
     /\ Checker = MaxClusters(2)
     /\ Builtin
     /\ pc # "run") =>
        (pc = "done" /\ Count(clusters) = 2)

\* C5: when LWParams() returns a slice whose length is not 4, Cluster does
\* not fail: it runs to its normal end, which is one cluster or a veto of
\* the checker.
C5_NoFailure ==
    (LinkageType.lwLen # 4 /\ pc # "run") =>
        /\ pc = "done"
        /\ \/ Count(clusters) <= 1
           \/ /\ Len(calls) > 0
              /\ calls[Len(calls)].op = "Check"
              /\ ~calls[Len(calls)].ret

\* C6: a Check that returned false is the last call of the run: nothing is
\* merged and nothing is checked after it, and the clusters stay exactly as
\* they were when Check was called (with a veto on the first attempt, no
\* merge at all).
C6_Veto ==
    \A n \in 1..Len(calls) :
        (calls[n].op = "Check" /\ ~calls[n].ret) =>
            /\ n = Len(calls)
            /\ clusters = calls[n].cl
            /\ Count(clusters) = calls[n].count
            /\ pc = "done"
            /\ (n = 1 => Merges = 0)

C6_Witness ==
    /\ pc = "done"
    /\ Len(calls) >= 3
    /\ calls[Len(calls)].op = "Check"
    /\ ~calls[Len(calls)].ret
    /\ Merges >= 1

\* C7: every step of a Cluster run leaves Count() unchanged or performs one
\* merge that reduces it by exactly 1; Count() never increases, and a run
\* that starts with N clusters performs at most N - 1 merges.
C7_CountDecreases ==
    [][/\ Merges' - Merges \in {0, 1}
       /\ Count(clusters') = Count(clusters) - (Merges' - Merges)
       /\ Count(clusters') <= Count(clusters)
       /\ (Len(calls') > 0 => Merges' <= calls'[1].count - 1)]_vars

C7_Witness ==
    /\ pc = "done"
    /\ Merges >= 3
    /\ Count(clusters) = calls[1].count - Merges

\* C8: with unweighted AverageLinkage the Lance-Williams coefficients used
\* for the cache update of a merge of i and j are ni/(ni+nj), nj/(ni+nj),
\* 0, 0 for the item counts ni, nj of clusters i and j at that merge.
C8_AvgCoefficients ==
    [][(/\ LinkageType.kind = "avg"
        /\ ~LinkageType.isWeighted
        /\ Merges' = Merges + 1) =>
           LET m  == calls'[Len(calls')]
               ni == Len(Items(m.cl, m.i))
               nj == Len(Items(m.cl, m.j))
           IN  lwCache' = <<Rat(ni, ni + nj), Rat(nj, ni + nj), F(0), F(0)>>]_vars

\* C9: after a Reset() and a non-empty sequence of Put calls, with zero,
\* positive and negative distances, Get() of CompleteLinkage is the maximum
\* and Get() of SingleLinkage the minimum of the put distances.
C9_MaxMin ==
    (pc = "put") =>
        /\ (LinkageType.kind = "max" => Get(LinkageType) = SeqMax(puts))
        /\ (LinkageType.kind = "min" => Get(LinkageType) = SeqMin(puts))

\* C10: with CompleteLinkage a cluster pair for which no item-pair distance
\* was put is never handed to Checker.Check and never merged.
C10_NoEmptyPairSelected ==
    (LinkageType.kind = "max") =>
        \A n \in 1..Len(calls) : calls[n].pairs > 0

\* C11: every call of ClusterSet.Distance made during a Cluster run has
\* cluster arguments c1 # c2: the engine asks only for the distance of two
\* items that lie in separate clusters.
C11_SeparateClusters ==
    \A p \in distanceCalls : p[1] # p[2]

\* whether the DistanceMap has an entry for (x, y)
HasEntry(x, y) == x \in DOMAIN data /\ y \in DOMAIN data[x]

\* C12: Distance(_, _, x, y) of a DistanceMap cluster set is data[x][y]
\* when that entry exists, otherwise data[y][x] when that exists, otherwise
\* 1.0; when only one of (x, y) / (y, x) is populated the two argument
\* orders give the same distance, and the cluster arguments never change
\* the result.
C12_DistanceLookup ==
    (pc = "distance" /\ Len(calls) = 1) =>
        LET r == calls[1]
            x == r.item1
            y == r.item2
        IN  /\ HasEntry(x, y) => r.ret = data[x][y]
            /\ (~HasEntry(x, y) /\ HasEntry(y, x)) => r.ret = data[y][x]
            /\ (~HasEntry(x, y) /\ ~HasEntry(y, x)) => r.ret = F(1)
            /\ (HasEntry(x, y) # HasEntry(y, x)) =>
                   r.ret = Distance(data, r.c2, r.c1, y, x)
            /\ \A d1, d2 \in 0..1 : Distance(data, d1, d2, x, y) = r.ret

\* a call that found only the reversed entry, with a distance other than
\* the default
C12_Witness ==
    /\ pc = "distance"
    /\ Len(calls) = 1
    /\ ~HasEntry(calls[1].item1, calls[1].item2)
    /\ HasEntry(calls[1].item2, calls[1].item1)
    /\ calls[1].item1 # calls[1].item2
    /\ calls[1].ret = F(2)

\* a linkage object of the kind of LinkageType that has never been used
FreshLinkage ==
    NewLinkage(LinkageType.kind, LinkageType.isWeighted, LinkageType.lwLen)

\* the linkage object c after Put of the distances se from position n on
RECURSIVE Replay(_, _, _)
Replay(c, se, n) ==
    IF n > Len(se) THEN c
    ELSE Let(Put(c, "a", "c", se[n]), LAMBDA c2 : Replay(c2, se, n + 1))

\* C13: for each built-in linkage Reset() discards all accumulated state:
\* after a Reset the object is as a never-used object after Reset, and the
\* score of a Reset-Put*-Get cycle is the score the same Puts give on a
\* never-used object, whatever cycles were run on the object before (so
\* two cycles with identical Puts give identical scores).
C13_ResetReuse ==
    /\ (pc = "reset") => LinkageType = Reset(FreshLinkage)
    /\ (pc = "put") =>
           Get(LinkageType) = Get(Replay(Reset(FreshLinkage), puts, 1))

\* a second or later cycle on an unweighted average linkage
C13_Witness ==
    /\ pc = "put"
    /\ Len(calls) = 1
    /\ calls[1].ret # Get(LinkageType)
    /\ Len(puts) >= 2
    /\ LinkageType.kind = "avg"
    /\ ~LinkageType.isWeighted

\* the clusters Cluster was called with
InitialClusters == IF calls = <<>> THEN clusters ELSE calls[1].cl

\* the Merge(i, j) calls made so far, in order
RECURSIVE MergeSeq(_, _)
MergeSeq(cs, n) ==
    IF n > Len(cs) THEN <<>>
    ELSE IF cs[n].op = "Merge"
         THEN <<(<<cs[n].i, cs[n].j>>)>> \o MergeSeq(cs, n + 1)
         ELSE MergeSeq(cs, n + 1)

\* the run of the uncached engine on the clusters, linkage and checker of
\* this run
UncachedRun ==
    uncachedCluster([LinkageType |-> FreshLinkage,
                     clusters |-> InitialClusters, merges |-> <<>>], Checker)

\* C14: with CompleteLinkage or SingleLinkage, on the same DistanceMap
\* cluster set, initial cluster order and checker, the caching engine
\* performs the same sequence of Merge(i, j) calls as the engine that
\* recomputes every score each round, and ends with the same partition.
C14_CachedEqualsUncached ==
    (LinkageType.kind \in {"max", "min"} /\ pc # "run") =>
        /\ pc = "done"
        /\ MergeSeq(calls, 1) = UncachedRun.merges
        /\ Partition(clusters) = Partition(UncachedRun.clusters)

\* the score HClustering.dist returns for the clusters x and y of the
\* current state: the cached score when the cache of this run has one,
\* otherwise the score computed from scratch
PreScore(x, y) ==
    LET i == IF x > y THEN y ELSE x
        j == IF x > y THEN x ELSE y
    IN  IF Len(lwCache) = 4 /\ CacheHas(distCache, i, j)
        THEN distCache[i][j]
        ELSE FromScratch(i, j)

\* the index after Merge(i, j) of the cluster that was at index k: the data
\* source moves the last cluster into the vacated slot j
PostIndex(k, j) == IF k = Count(clusters) - 1 THEN j ELSE k

\* the entry of the distance cache of the next state for the clusters at
\* the indices x and y of the next state: whether it exists, and its score
PostHas(x, y) ==
    CacheHas(distCache', IF x > y THEN y ELSE x, IF x > y THEN x ELSE y)

PostCached(x, y) ==
    distCache'[IF x > y THEN y ELSE x][IF x > y THEN x ELSE y]

\* this step performs a merge and the engine survives it
MergeStep ==
    /\ Merges' = Merges + 1
    /\ pc' # "panic"
    /\ Len(lwCache') = 4

\* C15: after mergeAndUpdateAll merges i and j, for every surviving cluster
\* K other than the merged one the cache entry for (ni, index of K after
\* the merge) is the Lance-Williams recurrence on the scores that K had to
\* the old clusters i and j before the merge, also when K is the cluster
\* the data source moved from the last slot into the vacated slot.
C15_UpdateTracksIdentity ==
    [][MergeStep =>
          LET m == calls'[Len(calls')]
          IN  \A K \in 0..(Count(clusters) - 1) :
                  (K # m.i /\ K # m.j) =>
                      /\ PostHas(m.i, PostIndex(K, m.j))
                      /\ PostCached(m.i, PostIndex(K, m.j)) =
                             LanceWilliams(lwCache', PreScore(m.i, K),
                                           PreScore(m.j, K),
                                           PreScore(m.i, m.j))]_vars

\* C16: after a merge of i and j, for every two surviving clusters neither
\* of which is the merged one, the score cached at their indices after the
\* merge is the score cached for the same two clusters before the merge,
\* also when one of them was moved from the last slot into the vacated
\* slot.
C16_PureRelocation ==
    [][MergeStep =>
          LET m == calls'[Len(calls')]
          IN  \A p, q \in 0..(Count(clusters) - 1) :
                  (p < q /\ {p, q} \cap {m.i, m.j} = {}) =>
                      /\ PostHas(PostIndex(p, m.j), PostIndex(q, m.j))
                      /\ PostCached(PostIndex(p, m.j), PostIndex(q, m.j)) =
                             PreScore(p, q)]_vars

\* a merge of clusters 0 and 1 of five or more has just moved the last
\* cluster into slot 1, and its score to cluster 2 is cached at (1, 2)
C16_Witness ==
    /\ pc \in {"run", "done"}
    /\ Len(calls) > 0
    /\ calls[Len(calls)].op = "Merge"
    /\ calls[Len(calls)].count >= 5
    /\ calls[Len(calls)].j = 1
    /\ Len(lwCache) = 4
    /\ CacheHas(distCache, 1, 2)
    /\ distCache[1][2] # F(1)

\* the pairs c1 < c2 of live clusters, which the nested EachCluster
\* enumeration of MergeNext meets in lexicographic order
LivePairs ==
    {p \in (0..(Count(clusters) - 1)) \X (0..(Count(clusters) - 1)) :
        p[1] < p[2]}

\* pair p is met before pair q, or is q
MetFirst(p, q) == p[1] < q[1] \/ (p[1] = q[1] /\ p[2] <= q[2])

\* C17: in each MergeNext attempt the pair handed to Checker.Check has a
\* score less than or equal to the score dist(c1, c2) of every live pair
\* c1 < c2, and among the pairs with that score it is the first one of
\* the nested EachCluster enumeration; the attempt fails without calling
\* Check exactly when no pair has a score below the maximum finite value.
C17_BestPair ==
    [][(pc = "run" /\ Count(clusters) > 1 /\ pc' # "panic") =>
          IF Len(calls') > Len(calls)
          THEN LET chk == calls'[Len(calls) + 1]
               IN  /\ chk.op = "Check"
                   /\ <<chk.i, chk.j>> \in LivePairs
                   /\ chk.score = PreScore(chk.i, chk.j)
                   /\ \A p \in LivePairs :
                          /\ FLe(chk.score, PreScore(p[1], p[2]))
                          /\ (PreScore(p[1], p[2]) = chk.score) =>
                                 MetFirst(<<chk.i, chk.j>>, p)
          ELSE /\ pc' = "done"
               /\ \A p \in LivePairs :
                      ~FLt(PreScore(p[1], p[2]), MaxFloat64)]_vars

\* C18: every call of ClusterSet.Merge(i, j) is preceded, with no other
\* Check or Merge in between, by exactly one Checker.Check call with the
\* same (i, j) and the score of that pair which returned true, and that
\* Check saw the data source before the merge (Count() not yet reduced).
C18_CheckBeforeMerge ==
    [][/\ \A n \in 1..Len(calls') :
              (calls'[n].op = "Merge") =>
                  /\ n > 1
                  /\ calls'[n - 1].op = "Check"
                  /\ calls'[n - 1].ret
                  /\ calls'[n - 1].i = calls'[n].i
                  /\ calls'[n - 1].j = calls'[n].j
                  /\ calls'[n - 1].count = calls'[n].count
                  /\ calls'[n - 1].cl = calls'[n].cl
                  /\ (n > 2 => calls'[n - 2].op = "Merge")
       /\ (Merges' # Merges) =>
              LET chk == calls'[Len(calls') - 1]
                  mrg == calls'[Len(calls')]
              IN  /\ Len(calls') = Len(calls) + 2
                  /\ mrg.op = "Merge"
                  /\ chk.score = PreScore(mrg.i, mrg.j)
                  /\ chk.cl = clusters
                  /\ chk.count = Count(clusters)
                  /\ Count(clusters') = chk.count - 1]_vars

\* a run whose latest call is a second or later Merge, checked with a
\* score other than 0
C18_Witness ==
    /\ Len(calls) >= 4
    /\ calls[Len(calls)].op = "Merge"
    /\ calls[Len(calls) - 1].op = "Check"
    /\ calls[Len(calls) - 1].score # F(0)
    /\ Count(clusters) = calls[Len(calls) - 1].count - 1

\* C19: with CompleteLinkage and Threshold(t) every merge that is performed
\* joins two clusters whose largest cross-cluster item distance is <= t,
\* so when Cluster returns every two items of a cluster are at distance
\* <= t.
C19_Diameter ==
    (LinkageType.kind = "max" /\ Checker.kind = "threshold") =>
        /\ \A n \in 1..Len(calls) :
               (calls[n].op = "Merge") =>
                   \A x \in Members(calls[n].cl, calls[n].i),
                      y \in Members(calls[n].cl, calls[n].j) :
                       FLe(Distance(data, calls[n].i, calls[n].j, x, y),
                           Checker.val)
        /\ (pc = "done") =>
               \A c \in 0..(Count(clusters) - 1) :
                   \A x, y \in Members(clusters, c) :
                       (x # y) => FLe(Distance(data, c, c, x, y), Checker.val)

\* the positions (cluster, place) at which item x occurs in cl
Places(cl, x) ==
    {p \in (1..Len(cl)) \X (1..Cardinality(DataItems)) :
        p[2] <= Len(cl[p[1]]) /\ cl[p[1]][p[2]] = x}

\* C20: after any sequence of Merge(i, j) calls with distinct live i and j
\* every item of the initial set belongs to exactly one live cluster; one
\* Merge(i, j) returns kept = min(i, j) and swappedIn = the last index
\* before the merge, leaves at kept the union of the two clusters, leaves
\* at max(i, j) the cluster that was last (when max(i, j) was not last),
\* and leaves every other cluster's index and membership unchanged.
C20_MergePartition ==
    [][(clusters' # clusters) =>
          LET r == calls'[1]
              lo == IF r.i < r.j THEN r.i ELSE r.j
              hi == IF r.i < r.j THEN r.j ELSE r.i
              last == Count(clusters) - 1
          IN  /\ r.keep = lo
              /\ r.swappedIn = last
              /\ Count(clusters') = Count(clusters) - 1
              /\ Members(clusters', lo) =
                     Members(clusters, lo) \cup Members(clusters, hi)
              /\ (hi # last) => Items(clusters', hi) = Items(clusters, last)
              /\ \A k \in 0..(last - 1) :
                     (k # lo /\ k # hi) =>
                         Items(clusters', k) = Items(clusters, k)
              /\ \A x \in DataItems :
                     Cardinality(Places(clusters', x)) = 1]_vars

\* a second or later Merge, called with i > j, that moved the last cluster
\* into slot i
C20_Witness ==
    /\ pc = "merge"
    /\ Len(calls) = 1
    /\ calls[1].i > calls[1].j
    /\ calls[1].i < calls[1].swappedIn
    /\ Cardinality(DataItems) - Count(clusters) >= 2
    /\ Count(clusters) >= 2

\* the larger and the smaller of two float64 values
Max64(x, y) == IF Less64(x, y) THEN y ELSE x

Min64(x, y) == IF Less64(y, x) THEN y ELSE x

\* C21: for all scores a = d(i,k), b = d(j,k) and any d(i,j), the
\* Lance-Williams recurrence with the CompleteLinkage coefficients yields
\* exactly max(a, b) and with the SingleLinkage coefficients exactly
\* min(a, b), the from-scratch score of the merged cluster to k.
C21_ExactMaxMin ==
    (pc = "lw" /\ Len(calls) = 1) =>
        /\ (LinkageType.kind = "max") =>
               calls[1].ret = Max64(calls[1].dik, calls[1].djk)
        /\ (LinkageType.kind = "min") =>
               calls[1].ret = Min64(calls[1].dik, calls[1].djk)

\* the keys (x, y) of the entries distCache[x][y] of the distance cache
CacheKeys(dc) == UNION {{<<x, y>> : y \in DOMAIN dc[x]} : x \in DOMAIN dc}

\* C22: after every completed MergeNext, every entry of the distance cache
\* is keyed by a pair (x, y) with x < y where both x and y are live cluster
\* indices (less than Count()): no entry refers to a vacated slot and no
\* entry pairs a cluster with itself.
C22_CanonicalLiveKeys ==
    (pc \in {"run", "done"} /\ ~distCacheNil) =>
        \A p \in CacheKeys(distCache) :
            /\ p[1] < p[2]
            /\ p[2] < Count(clusters)

====
